---- MODULE Spec2Model ----
(***************************************************************************)
(* Model of PathReconstructor (src/utils.py): the bicycle-model path       *)
(* integration calculate_path and the trajectory similarity                *)
(* calculate_similarity / calculate_similarity_matrix.                     *)
(*                                                                         *)
(* Python floats are modelled as fixed-point integers: the integer v       *)
(* stands for the real number v / Scale.  Products and quotients round to  *)
(* the nearest representable value, as float arithmetic does.  The float   *)
(* values inf and nan, which numpy produces on a division by zero, are     *)
(* modelled explicitly where the code can produce them (see Fin/Inf/NaN).  *)
(*                                                                         *)
(* Three specifications: Spec (calls of calculate_path), SpecSim (the      *)
(* caller's trajectory set and the similarity calls on it) and SpecAll     *)
(* (a caller that, like main_app_v2.py, stores the reconstructed drives    *)
(* in a set and calls the similarity methods on it).                       *)
(***************************************************************************)
EXTENDS Integers, Sequences, FiniteSets, TLC

\* ------------------------------------------------------------------ bounds
MaxLen == 4      \* longest wheel_angle / speed series handed to calculate_path

MaxPaths == 2    \* most trajectories in the named set given to the matrix

MaxPts == 2      \* most points of a trajectory in that set

\* ------------------------------------------------------- float arithmetic
Scale == 1000    \* fixed-point unit: the integer v is the float v / Scale

Abs(a) == IF a < 0 THEN -a ELSE a

Sgn(a) == IF a < 0 THEN -1 ELSE IF a > 0 THEN 1 ELSE 0

MinOf(a, b) == IF a <= b THEN a ELSE b

MaxOf(a, b) == IF a >= b THEN a ELSE b

\* a / b rounded to the nearest integer, halves away from zero
RoundDiv(a, b) == Sgn(a) * Sgn(b) * ((2 * Abs(a) + Abs(b)) \div (2 * Abs(b)))

\* float product a * b
Mul(a, b) == RoundDiv(a * b, Scale)

\* float quotient a / b of finite values, b # 0
Div(a, b) == RoundDiv(a * Scale, b)

\* ------------------------------------------------------------ np.cos etc.
Pi == 3142       \* pi in fixed point

HalfPi == 1571   \* pi / 2 in fixed point

TwoPi == 6283    \* 2 * pi in fixed point

\* the angle t brought into [-Pi, Pi]
Reduce(t) ==
    LET m == t % TwoPi
    IN  IF m > Pi THEN m - TwoPi ELSE m

\* cosine on [0, pi/2] by its Taylor series
CosQ(t) ==
    LET t2 == Mul(t, t)
        t4 == Mul(t2, t2)
        t6 == Mul(t4, t2)
        t8 == Mul(t4, t4)
    IN  Scale - RoundDiv(t2, 2) + RoundDiv(t4, 24) - RoundDiv(t6, 720)
          + RoundDiv(t8, 40320)

\* sine on [0, pi/2] by its Taylor series
SinQ(t) ==
    LET t2 == Mul(t, t)
        t3 == Mul(t2, t)
        t5 == Mul(t3, t2)
        t7 == Mul(t5, t2)
        t9 == Mul(t7, t2)
    IN  t - RoundDiv(t3, 6) + RoundDiv(t5, 120) - RoundDiv(t7, 5040)
          + RoundDiv(t9, 362880)

\* np.cos(t)
Cos(t) ==
    LET a == Abs(Reduce(t))
    IN  IF a <= HalfPi THEN CosQ(a) ELSE -CosQ(Pi - a)

\* np.sin(t)
Sin(t) ==
    LET r == Reduce(t)
        a == Abs(r)
    IN  Sgn(r) * (IF a <= HalfPi THEN SinQ(a) ELSE SinQ(Pi - a))

\* np.tan(t), for t off the poles of the tangent
Tan(t) == Div(Sin(t), Cos(t))

\* ------------------------------------------------------------------ inputs
\* steering angles (radians): straight ahead and a left turn
Angles == {0, 500}

\* speeds (m/s): stationary, slow, fast
Speeds == {0, Scale, 10 * Scale}

\* sampling frequencies (Hz) a caller may pass, valid or not
Freqs == {Scale, 2 * Scale, 10 * Scale, 0, -2 * Scale}

\* all sequences over S of length at most n
SeqsUpTo(S, n) == UNION {[1..m -> S] : m \in 0..n}

VARIABLES
    wheel_base,          \* self.wheel_base
    pc,                  \* position of the calculate_path call
    wheel_angle,         \* argument
    speed,               \* argument
    sampling_frequency,  \* argument
    x, y, theta, dt,     \* locals of calculate_path
    x_path, y_path,      \* locals of calculate_path
    k,                   \* samples consumed by the for loop
    ret,                 \* value returned to the caller, <<x_path, y_path>>
    exc,                 \* exception raised to the caller, "" when none
    paths,               \* the caller's named set: paths[p] = <<x array, y array>>
    paths0,              \* the caller's trajectories as they were handed in
    spc,                 \* position of the similarity call
    similarity_matrix,   \* local of calculate_similarity_matrix
    mi, mj,              \* loop indices i, j of calculate_similarity_matrix
    evals,               \* index pairs calculate_similarity was evaluated for
    sim_ret,             \* value calculate_similarity returned
    sim_args,            \* positions of path1, path2 of that call
    matrix_ret,          \* table calculate_similarity_matrix returned
    prev                 \* the matrix call the caller made just before, if any

pathVars == <<pc, wheel_angle, speed, sampling_frequency, x, y, theta, dt,
              x_path, y_path, k, ret, exc>>

simVars == <<paths, paths0, spc, similarity_matrix, mi, mj, evals, sim_ret,
             sim_args, matrix_ret, prev>>

vars == <<wheel_base, pathVars, simVars>>

\* PathReconstructor.__init__: wheel_base = 2.5
DefaultWheelBase == 2500

\* a method that puts the default wheel base back
WheelBaseAfterReset(wb) == DefaultWheelBase

\* self.wheel_base after a step of any method: lines 56-147 never assign it
WheelBaseAfter(wb) == wb

\* every pair taken from the end of the series instead of position q
SampleAtLast(series, q) == series[Len(series)]

\* the q-th pair zip(wheel_angle, speed) yields takes the q-th sample: line 70
SampleAt(series, q) == series[q]

\* number of pairs zip(wheel_angle, speed) yields
ZipLen(a, b) == MinOf(Len(a), Len(b))

\* R == np.inf, utils.py lines 76-81: only the zero angle sets R to np.inf
RadiusIsInf(angle) == angle = 0

\* the finite turning radius R, utils.py line 77; read only for a nonzero angle
Radius(angle, wb) == IF angle # 0 THEN Div(wb, Tan(angle)) ELSE 0

\* heading change of one moving step, utils.py lines 76-84
DTheta(angle, spd, d, wb) ==
    IF RadiusIsInf(angle) THEN 0 ELSE Div(Mul(spd, d), Radius(angle, wb))

\* heading after one step, utils.py lines 71-86
NextTheta(th, angle, spd, d, wb) ==
    IF spd = 0 THEN th ELSE th + DTheta(angle, spd, d, wb)

\* the same with the factor dt forgotten
NextXNoDt(px, th, angle, spd, d, wb) ==
    IF spd = 0 THEN px
    ELSE px + Mul(spd, Cos(NextTheta(th, angle, spd, d, wb)))

\* the displacement taken along the heading held before the step
NextXOldTheta(px, th, angle, spd, d, wb) ==
    IF spd = 0 THEN px ELSE px + Mul(Mul(spd, Cos(th)), d)

\* x after one step, utils.py lines 71-87
NextX(px, th, angle, spd, d, wb) ==
    IF spd = 0 THEN px
    ELSE px + Mul(Mul(spd, Cos(NextTheta(th, angle, spd, d, wb))), d)

\* y after one step, utils.py lines 71-88
NextY(py, th, angle, spd, d, wb) ==
    IF spd = 0 THEN py
    ELSE py + Mul(Mul(spd, Sin(NextTheta(th, angle, spd, d, wb))), d)

\* the lists started empty, the origin forgotten
StartPathEmpty == <<>>

\* x_path, y_path = [x], [y] with x = y = 0: line 68
StartPath == <<0>>

\* the stationary branch continuing without its append
XPathAfterNoStationary(xp, px, th, angle, spd, d, wb) ==
    IF spd = 0 THEN xp ELSE Append(xp, NextX(px, th, angle, spd, d, wb))

\* the stationary branch without its continue: it appends, then falls through
\* to the moving code, which adds a zero displacement and appends again
XPathAfterNoContinue(xp, px, th, angle, spd, d, wb) ==
    IF spd = 0 THEN Append(Append(xp, px), px)
    ELSE Append(xp, NextX(px, th, angle, spd, d, wb))

\* x_path after one step, lines 72 and 90
XPathAfter(xp, px, th, angle, spd, d, wb) ==
    Append(xp, NextX(px, th, angle, spd, d, wb))

\* y_path after one step, lines 73 and 91
YPathAfter(yp, py, th, angle, spd, d, wb) ==
    Append(yp, NextY(py, th, angle, spd, d, wb))

PathInit ==
    /\ pc = "idle"
    /\ wheel_angle = <<>>
    /\ speed = <<>>
    /\ sampling_frequency = Scale
    /\ x = 0 /\ y = 0 /\ theta = 0 /\ dt = 0
    /\ x_path = <<>> /\ y_path = <<>>
    /\ k = 0
    /\ ret = <<>>
    /\ exc = ""

Init ==
    /\ wheel_base = DefaultWheelBase
    /\ PathInit
    /\ paths = <<>>
    /\ paths0 = <<>>
    /\ spc = "idle"
    /\ similarity_matrix = <<>>
    /\ mi = 0 /\ mj = 0
    /\ evals = <<>>
    /\ sim_ret = [tag |-> "none", v |-> 0]
    /\ sim_args = <<>>
    /\ matrix_ret = <<>>
    /\ prev = [called |-> FALSE, matrix |-> <<>>, moved |-> FALSE]

\* calculate_path is entered: lines 65-68
EnterCalculatePath(wa, sp, f) ==
    /\ wheel_angle' = wa
    /\ speed' = sp
    /\ sampling_frequency' = f
    /\ x' = 0 /\ y' = 0 /\ theta' = 0
    /\ k' = 0
    /\ ret' = <<>>
    /\ IF f = 0
         THEN \* 1 / 0 raises before the lists are built
              /\ pc' = "raised"
              /\ exc' = "ZeroDivisionError"
              /\ dt' = 0
              /\ x_path' = <<>> /\ y_path' = <<>>
         ELSE /\ pc' = "loop"
              /\ exc' = ""
              /\ dt' = Div(Scale, f)
              /\ x_path' = StartPath /\ y_path' = StartPath

\* a caller of the class calls calculate_path with series and a frequency of
\* its choice
CallCalculatePath ==
    /\ pc = "idle"
    /\ spc = "idle"
    /\ \E wa \in SeqsUpTo(Angles, MaxLen), sp \in SeqsUpTo(Speeds, MaxLen),
          f \in Freqs :
        EnterCalculatePath(wa, sp, f)
    /\ wheel_base' = WheelBaseAfter(wheel_base)
    /\ UNCHANGED <<simVars>>

\* one iteration of the for loop: lines 70-91
LoopStep ==
    /\ pc = "loop"
    /\ k < ZipLen(wheel_angle, speed)
    /\ LET angle == SampleAt(wheel_angle, k + 1)
           spd   == SampleAt(speed, k + 1)
       IN  /\ theta' = NextTheta(theta, angle, spd, dt, wheel_base)
           /\ x' = NextX(x, theta, angle, spd, dt, wheel_base)
           /\ y' = NextY(y, theta, angle, spd, dt, wheel_base)
           /\ x_path' = XPathAfter(x_path, x, theta, angle, spd, dt, wheel_base)
           /\ y_path' = YPathAfter(y_path, y, theta, angle, spd, dt, wheel_base)
    /\ k' = k + 1
    /\ wheel_base' = WheelBaseAfter(wheel_base)
    /\ UNCHANGED <<pc, wheel_angle, speed, sampling_frequency, dt,
                   ret, exc, simVars>>

\* the loop is exhausted: line 93
ReturnPath ==
    /\ pc = "loop"
    /\ k = ZipLen(wheel_angle, speed)
    /\ pc' = "returned"
    /\ ret' = <<x_path, y_path>>
    /\ wheel_base' = WheelBaseAfter(wheel_base)
    /\ UNCHANGED <<wheel_angle, speed, sampling_frequency, x, y,
                   theta, dt, x_path, y_path, k, exc, simVars>>

\* the caller has taken the result (main_app.py plots it and keeps nothing)
\* or the exception, and the call's frame is gone; the next call may start
CallerContinues ==
    /\ pc \in {"returned", "raised"}
    /\ pc' = "idle"
    /\ wheel_angle' = <<>>
    /\ speed' = <<>>
    /\ sampling_frequency' = Scale
    /\ x' = 0 /\ y' = 0 /\ theta' = 0 /\ dt' = 0
    /\ x_path' = <<>> /\ y_path' = <<>>
    /\ k' = 0
    /\ ret' = <<>>
    /\ exc' = ""
    /\ wheel_base' = WheelBaseAfter(wheel_base)
    /\ UNCHANGED <<simVars>>

\* ---------------------------------------------- calculate_path as a function
RECURSIVE RunPath(_, _, _, _, _)
\* the frame of calculate_path after the first n pairs of the loop, started
\* from theta = 0 and the one-point lists: lines 65-91; x and y are the last
\* elements of the lists, which every iteration appends them to
RunPath(wa, sp, d, wb, n) ==
    IF n = 0
    THEN [theta |-> 0, x_path |-> StartPath, y_path |-> StartPath]
    ELSE LET s     == RunPath(wa, sp, d, wb, n - 1)
             angle == SampleAt(wa, n)
             spd   == SampleAt(sp, n)
             px    == s.x_path[Len(s.x_path)]
             py    == s.y_path[Len(s.y_path)]
         IN  [theta  |-> NextTheta(s.theta, angle, spd, d, wb),
              x_path |-> XPathAfter(s.x_path, px, s.theta, angle, spd, d, wb),
              y_path |-> YPathAfter(s.y_path, py, s.theta, angle, spd, d, wb)]

\* the pair of arrays calculate_path returns for a nonzero frequency f
CalculatePath(wa, sp, f, wb) ==
    LET s == RunPath(wa, sp, Div(Scale, f), wb, ZipLen(wa, sp))
    IN  <<s.x_path, s.y_path>>

\* np.radians: degrees times pi / 180 (streamlit_app.py line 61)
Radians(a) == RoundDiv(a * Pi, 180 * Scale)

\* the module-level calculate_path of streamlit_app.py: it converts the
\* angles with np.radians, then runs the same loop (lines 57-99)
StreamlitCalculatePath(wa, sp, f, wb) ==
    CalculatePath([q \in 1..Len(wa) |-> Radians(wa[q])], sp, f, wb)

\* ------------------------------------------------------------- similarity
\* a float that may be non-finite: numpy yields inf and nan on division by 0
Fin(v) == [tag |-> "fin", v |-> v]

NaN == [tag |-> "nan", v |-> 0]

Inf == [tag |-> "inf", v |-> 0]

NoValue == [tag |-> "none", v |-> 0]

\* drive identifiers, in the iteration order of the caller's mapping
DriveNames == <<"a", "b", "c", "d">>

\* the road the caller's drives follow: from the origin east, then north
Route == <<<<0, 0>>, <<Scale, 0>>, <<Scale, Scale>>>>

\* the trajectories <<x array, y array>> of at most n points: a drive starts
\* anywhere on the road and moves forward along it or pauses, never back
Trajs(n) ==
    UNION {{<<[q \in 1..m |-> Route[ix[q]][1]], [q \in 1..m |-> Route[ix[q]][2]]>> :
              ix \in {f \in [1..m -> 1..Len(Route)] :
                        \A q \in 1..(m - 1) : f[q] <= f[q + 1]}} : m \in 1..n}

RECURSIVE SqrtFloor(_, _, _)
\* the largest r in lo..hi with r * r <= n
SqrtFloor(n, lo, hi) ==
    IF lo >= hi THEN lo
    ELSE LET mid == (lo + hi + 1) \div 2
         IN  IF mid * mid <= n THEN SqrtFloor(n, mid, hi)
             ELSE SqrtFloor(n, lo, mid - 1)

\* np.sqrt(v) of a sum of squares v >= 0, which is held exactly (in units
\* of 1 / Scale^2, see Sq): the root rounded to the nearest value of the grid
Sqrt(v) ==
    LET r == SqrtFloor(v, 0, 46340)
    IN  IF v - r * r > r THEN r + 1 ELSE r

\* a ** 2, kept exactly, in units of 1 / Scale^2: it is not rounded to the
\* grid before the sum and the root are taken
Sq(a) == a * a

\* arr.max() and arr.min()
SeqMax(a) == CHOOSE v \in {a[n] : n \in 1..Len(a)} :
                \A n \in 1..Len(a) : v >= a[n]

SeqMin(a) == CHOOSE v \in {a[n] : n \in 1..Len(a)} :
                \A n \in 1..Len(a) : v <= a[n]

RECURSIVE SeqSum(_, _)
\* a[1] + ... + a[n]
SeqSum(a, n) == IF n = 0 THEN 0 ELSE SeqSum(a, n - 1) + a[n]

\* the values of f laid out as an array, each computed once
AsArray(f) == f \o <<>>

\* np.linspace(0, 1, n)
Linspace(n) ==
    AsArray([m \in 1..n |-> IF n = 1 THEN 0 ELSE RoundDiv((m - 1) * Scale, n - 1)])

\* np.interp(q, xp, fp) at one query point q, xp increasing
InterpAt(q, xp, fp) ==
    IF q >= xp[Len(xp)] THEN fp[Len(fp)]
    ELSE IF q < xp[1] THEN fp[1]
    ELSE LET j == CHOOSE n \in 1..(Len(xp) - 1) : xp[n] <= q /\ q < xp[n + 1]
             slope == Div(fp[j + 1] - fp[j], xp[j + 1] - xp[j])
         IN  Mul(slope, q - xp[j]) + fp[j]

\* np.interp(np.linspace(0, 1, length), np.linspace(0, 1, len(a)), a)
Resample(a, length) ==
    LET q  == Linspace(length)
        xp == Linspace(Len(a))
    IN  AsArray([m \in 1..length |-> InterpAt(q[m], xp, a)])

\* arr -= arr[0], the array after the in-place subtraction: lines 107-110
Translate(a) == AsArray([n \in 1..Len(a) |-> a[n] - a[1]])

\* point-wise distance of the resampled paths: line 123
Distance(x1r, y1r, x2r, y2r) ==
    AsArray([m \in 1..Len(x1r) |->
                Sqrt(Sq(x1r[m] - x2r[m]) + Sq(y1r[m] - y2r[m]))])

\* diagonal of path1's resampled bounding box: line 126
MaxDistance(x1r, y1r) ==
    Sqrt(Sq(SeqMax(x1r) - SeqMin(x1r)) + Sq(SeqMax(y1r) - SeqMin(y1r)))

\* np.mean(distance / max_distance): line 127
MeanRatio(distance, max_distance) ==
    LET n == Len(distance)
        ratio == [m \in 1..n |->
                    IF max_distance # 0 THEN Fin(Div(distance[m], max_distance))
                    ELSE IF distance[m] = 0 THEN NaN
                    ELSE Inf]
    IN  IF \E m \in 1..n : ratio[m].tag = "nan" THEN NaN
        ELSE IF \E m \in 1..n : ratio[m].tag = "inf" THEN Inf
        ELSE Fin(RoundDiv(SeqSum([m \in 1..n |-> ratio[m].v], n), n))

\* np.clip(r, 0, 1): line 127
Clip01(r) ==
    IF r.tag = "nan" THEN NaN
    ELSE IF r.tag = "inf" THEN Fin(Scale)
    ELSE Fin(MaxOf(0, MinOf(Scale, r.v)))

\* the complement forgotten: the clipped mean ratio itself is returned
OneMinusForgotten(c) == c

\* 1 - c: line 127
OneMinus(c) == IF c.tag = "nan" THEN NaN ELSE Fin(Scale - c.v)

\* lines 113-129 on the translated arrays
SimilarityIndex(x1, y1, x2, y2) ==
    LET length == MaxOf(Len(x1), Len(x2))
        x1r == Resample(x1, length)
        y1r == Resample(y1, length)
        x2r == Resample(x2, length)
        y2r == Resample(y2, length)
    IN  OneMinus(Clip01(MeanRatio(Distance(x1r, y1r, x2r, y2r),
                                  MaxDistance(x1r, y1r))))

\* one stored trajectory after x -= x[0]; y -= y[0]
TranslatePath(p) == <<Translate(p[1]), Translate(p[2])>>

\* only path1 translated, the subtractions on path2 forgotten
PathsAfterSimilarityPath1Only(ps, i, j) == [ps EXCEPT ![i] = TranslatePath(@)]

\* the caller's set after calculate_similarity(ps[i], ps[j]): the in-place
\* subtractions of lines 107-110 act on the caller's arrays, path1 first
PathsAfterSimilarity(ps, i, j) ==
    LET after1 == [ps EXCEPT ![i] = TranslatePath(@)]
    IN  [after1 EXCEPT ![j] = TranslatePath(@)]

\* the value calculate_similarity(ps[i], ps[j]) returns
Similarity(ps, i, j) ==
    LET q == PathsAfterSimilarity(ps, i, j)
    IN  SimilarityIndex(q[i][1], q[i][2], q[j][1], q[j][2])

\* np.zeros((n, n))
Zeros(n) == [r \in 1..n |-> [c \in 1..n |-> Fin(0)]]

\* no matrix call came just before
NoPrev == [called |-> FALSE, matrix |-> <<>>, moved |-> FALSE]

SimIdle ==
    /\ spc = "idle"
    /\ prev = NoPrev
    /\ similarity_matrix = <<>>
    /\ mi = 0 /\ mj = 0
    /\ evals = <<>>
    /\ sim_ret = NoValue
    /\ sim_args = <<>>
    /\ matrix_ret = <<>>

\* calculate_similarity(paths[i], paths[j]) called by the caller: lines 103-129
CallCalculateSimilarity ==
    /\ spc = "idle"
    /\ pc = "idle"
    /\ \E i \in 1..Len(paths), j \in 1..Len(paths) :
        /\ paths' = PathsAfterSimilarity(paths, i, j)
        /\ sim_ret' = Similarity(paths, i, j)
        /\ sim_args' = <<i, j>>
    /\ spc' = "sim_returned"
    /\ wheel_base' = WheelBaseAfter(wheel_base)
    /\ UNCHANGED <<pathVars, paths0, similarity_matrix, mi, mj,
                   evals, matrix_ret, prev>>

\* calculate_similarity_matrix(paths) is entered: lines 138-139
CallSimilarityMatrix ==
    /\ spc = "idle"
    /\ pc = "idle"
    /\ spc' = "matrix"
    /\ similarity_matrix' = Zeros(Len(paths))
    /\ mi' = 1 /\ mj' = 1
    /\ wheel_base' = WheelBaseAfter(wheel_base)
    /\ UNCHANGED <<pathVars, paths, paths0, evals, sim_ret,
                   sim_args, matrix_ret, prev>>

\* the test of line 143 forgotten: every cell is computed
ComputesPairAlways(i, j) == TRUE

\* if i <= j: only the upper triangle and the diagonal are computed, line 143
ComputesPair(i, j) == i <= j

\* the arguments exchanged: the column's trajectory handed over as path1
PairComparedSwapped(i, j) == <<j, i>>

\* the arguments of the call of line 144: the row's trajectory is path1,
\* the column's is path2
PairCompared(i, j) == <<i, j>>

\* one iteration of the inner loop: lines 141-145
MatrixStep ==
    /\ spc = "matrix"
    /\ mi <= Len(paths)
    /\ IF ComputesPair(mi, mj)
         THEN LET p == PairCompared(mi, mj)
                  s == Similarity(paths, p[1], p[2])
              IN  /\ similarity_matrix' =
                       [[similarity_matrix EXCEPT ![mi][mj] = s]
                           EXCEPT ![mj][mi] = s]
                  /\ paths' = PathsAfterSimilarity(paths, p[1], p[2])
                  /\ evals' = Append(evals, p)
         ELSE UNCHANGED <<similarity_matrix, paths, evals>>
    /\ IF mj < Len(paths)
         THEN mj' = mj + 1 /\ mi' = mi
         ELSE mj' = 1 /\ mi' = mi + 1
    /\ wheel_base' = WheelBaseAfter(wheel_base)
    /\ UNCHANGED <<pathVars, paths0, spc, sim_ret, sim_args,
                   matrix_ret, prev>>

\* both loops are exhausted: line 147
ReturnMatrix ==
    /\ spc = "matrix"
    /\ mi > Len(paths)
    /\ spc' = "matrix_returned"
    /\ matrix_ret' = similarity_matrix
    /\ wheel_base' = WheelBaseAfter(wheel_base)
    /\ UNCHANGED <<pathVars, paths, paths0, similarity_matrix, mi,
                   mj, evals, sim_ret, sim_args, prev>>

\* the caller has taken the result; it keeps its trajectory set as it now is
SimCallerContinues ==
    /\ spc \in {"sim_returned", "matrix_returned"}
    /\ spc' = "idle"
    /\ similarity_matrix' = <<>>
    /\ mi' = 0 /\ mj' = 0
    /\ evals' = <<>>
    /\ sim_ret' = NoValue
    /\ sim_args' = <<>>
    /\ matrix_ret' = <<>>
    /\ paths0' = paths
    /\ prev' = IF spc = "matrix_returned"
                 THEN [called |-> TRUE, matrix |-> matrix_ret,
                       moved |-> paths # paths0]
                 ELSE NoPrev
    /\ wheel_base' = WheelBaseAfter(wheel_base)
    /\ UNCHANGED <<pathVars, paths>>


Next ==
    \/ CallCalculatePath
    \/ LoopStep
    \/ ReturnPath
    \/ CallerContinues

Spec == Init /\ [][Next]_vars

\* a PathReconstructor and a caller holding a named set of trajectories
SimInit ==
    /\ wheel_base = DefaultWheelBase
    /\ PathInit
    /\ paths \in SeqsUpTo(Trajs(MaxPts), MaxPaths)
    /\ paths0 = paths
    /\ SimIdle

SimNext ==
    \/ CallCalculateSimilarity
    \/ CallSimilarityMatrix
    \/ MatrixStep
    \/ ReturnMatrix
    \/ SimCallerContinues

SpecSim == SimInit /\ [][SimNext]_vars

\* ------------------------------------------------- one instance, all methods
\* an instance constructed with a wheel base other than the default:
\* PathReconstructor(wheel_base=3.0)
WiderWheelBase == 3 * Scale

\* the sampling frequencies the sidebar of main_app_v2.py lets through:
\* number_input(..., min_value=1)
MainFreqs == {f \in Freqs : f >= Scale}

\* speeds logged in the uploaded files
LoggedSpeeds == {0, Scale}

\* the wheel_angle and speed columns of one uploaded file: two columns of
\* one table, of the same length; the drive reconstructed from them has at
\* most MaxPts points
DriveFiles ==
    UNION {{<<wa, sp>> : wa \in [1..n -> Angles], sp \in [1..n -> LoggedSpeeds]}
              : n \in 0..(MaxPts - 1)}

\* main_app_v2.py before the loop of line 297: the instance is constructed,
\* the frequency is read from the sidebar, paths = {} (line 295)
AllInit ==
    /\ wheel_base \in {DefaultWheelBase, WiderWheelBase}
    /\ pc = "idle"
    /\ wheel_angle = <<>>
    /\ speed = <<>>
    /\ sampling_frequency \in MainFreqs
    /\ x = 0 /\ y = 0 /\ theta = 0 /\ dt = 0
    /\ x_path = <<>> /\ y_path = <<>>
    /\ k = 0
    /\ ret = <<>>
    /\ exc = ""
    /\ paths = <<>>
    /\ paths0 = paths
    /\ SimIdle

\* main_app_v2.py line 298: calculate_path on the columns of the next file,
\* with the frequency of the sidebar (held in sampling_frequency)
MainReconstructsPath ==
    /\ pc = "idle"
    /\ spc = "idle"
    /\ Len(paths) < MaxPaths
    /\ \E file \in DriveFiles :
           EnterCalculatePath(file[1], file[2], sampling_frequency)
    /\ wheel_base' = WheelBaseAfter(wheel_base)
    /\ UNCHANGED <<simVars>>

\* main_app_v2.py line 299: paths[name] = (x_path, y_path) puts the returned
\* arrays into the set under the next name; the call's frame is gone
StoreDrive ==
    /\ pc = "returned"
    /\ paths' = Append(paths, ret)
    /\ paths0' = paths'
    /\ prev' = NoPrev
    /\ pc' = "idle"
    /\ wheel_angle' = <<>>
    /\ speed' = <<>>
    /\ x' = 0 /\ y' = 0 /\ theta' = 0 /\ dt' = 0
    /\ x_path' = <<>> /\ y_path' = <<>>
    /\ k' = 0
    /\ ret' = <<>>
    /\ wheel_base' = WheelBaseAfter(wheel_base)
    /\ UNCHANGED <<sampling_frequency, exc, spc, similarity_matrix, mi, mj,
                   evals, sim_ret, sim_args, matrix_ret>>

\* main collects the drives, and the set is handed to the similarity
\* methods, one call at a time
AllNext ==
    \/ MainReconstructsPath
    \/ LoopStep
    \/ ReturnPath
    \/ StoreDrive
    \/ CallCalculateSimilarity
    \/ CallSimilarityMatrix
    \/ MatrixStep
    \/ ReturnMatrix
    \/ SimCallerContinues

SpecAll == AllInit /\ [][AllNext]_vars

\* ------------------------------------------------------ calculate_path
Completed == pc \in {"returned", "raised"}

EqualLength == Len(wheel_angle) = Len(speed)

AllZero(s) == \A n \in 1..Len(s) : s[n] = 0

Zeros1(n) == [q \in 1..n |-> 0]

\* C1: for equal-length series of length n and a positive sampling frequency
\* the returned x_path and y_path hold n + 1 entries each and start with
\* (0, 0); while the loop runs, after k samples both lists hold k + 1 entries.
C1_PathLength ==
    /\ pc \in {"loop", "returned"} =>
          /\ Len(x_path) = k + 1
          /\ Len(y_path) = k + 1
          /\ x_path[1] = 0
          /\ y_path[1] = 0
    /\ (pc = "returned" /\ EqualLength /\ sampling_frequency > 0) =>
          /\ Len(ret[1]) = Len(wheel_angle) + 1
          /\ Len(ret[2]) = Len(wheel_angle) + 1
          /\ ret[1][1] = 0
          /\ ret[2][1] = 0

C1_Witness ==
    /\ pc = "returned"
    /\ EqualLength
    /\ sampling_frequency > 0
    /\ Len(wheel_angle) >= 2
    /\ Len(ret[1]) = Len(wheel_angle) + 1
    /\ \E n \in 1..Len(speed) : speed[n] # 0

\* C2: n samples of speed 0, with any angles of the same length, give a
\* trajectory of n + 1 points that are all (0, 0).
C2_ZeroSpeedStays ==
    (pc = "returned" /\ EqualLength /\ AllZero(speed)) =>
        /\ ret[1] = Zeros1(Len(speed) + 1)
        /\ ret[2] = Zeros1(Len(speed) + 1)

C2_Witness ==
    /\ pc = "returned"
    /\ EqualLength
    /\ Len(speed) >= 3
    /\ AllZero(speed)
    /\ \A n \in 1..Len(wheel_angle) : wheel_angle[n] # 0
    /\ ret[1] = Zeros1(Len(speed) + 1)

StraightInput ==
    /\ EqualLength
    /\ Len(speed) >= 1
    /\ AllZero(wheel_angle)
    /\ speed[1] > 0
    /\ \A n \in 1..Len(speed) : speed[n] = speed[1]
    /\ sampling_frequency > 0

\* C3: zero angles and a constant positive speed v at frequency f give the
\* straight line with point k at (k * v / f, 0), k = 0..n, heading 0
\* throughout; angle = [0,0,0,0], speed = [10,10,10,10], f = 10 gives
\* [(0,0), (1,0), (2,0), (3,0), (4,0)].
C3_StraightLine ==
    /\ (pc \in {"loop", "returned"} /\ StraightInput) =>
          /\ theta = 0
          /\ \A q \in 0..k :
                /\ x_path[q + 1] = Div(q * speed[1], sampling_frequency)
                /\ y_path[q + 1] = 0
    /\ (pc = "returned" /\ StraightInput) =>
          /\ ret[1][Len(speed) + 1] =
                Div(Len(speed) * speed[1], sampling_frequency)
          /\ ret[2] = Zeros1(Len(speed) + 1)
    /\ (/\ pc = "returned"
        /\ wheel_angle = <<0, 0, 0, 0>>
        /\ speed = <<10 * Scale, 10 * Scale, 10 * Scale, 10 * Scale>>
        /\ sampling_frequency = 10 * Scale) =>
          ret = <<<<0, Scale, 2 * Scale, 3 * Scale, 4 * Scale>>,
                  <<0, 0, 0, 0, 0>>>>

C3_Witness ==
    /\ pc = "returned"
    /\ wheel_angle = <<0, 0, 0, 0>>
    /\ speed = <<10 * Scale, 10 * Scale, 10 * Scale, 10 * Scale>>
    /\ sampling_frequency = 10 * Scale
    /\ ret[1][5] = 4 * Scale

\* C4: a call with series of different lengths (and a valid sampling
\* frequency) signals an error and returns no trajectory.
C4_MismatchedLengthsRaise ==
    (Completed /\ ~EqualLength /\ sampling_frequency > 0) =>
        (pc = "raised" /\ ret = <<>>)

\* C5: a call with sampling_frequency <= 0 signals an error (any exception
\* is accepted as the signal) and returns no trajectory.
C5_NonPositiveFrequencyRaises ==
    (Completed /\ sampling_frequency <= 0) => (pc = "raised" /\ ret = <<>>)

\* C6: a call with empty series (and a valid sampling frequency) signals an
\* error and returns no trajectory.
C6_EmptySeriesRaise ==
    (Completed /\ wheel_angle = <<>> /\ speed = <<>> /\ sampling_frequency > 0) =>
        (pc = "raised" /\ ret = <<>>)

\* ---------------------------------------------------------- similarity
SimReturned == spc = "sim_returned"

MatrixReturned == spc = "matrix_returned"

\* the resampled arrays of the pair the returned call compared; the stored
\* arrays are already translated, and translating again changes nothing
ResampledPair ==
    LET p1 == TranslatePath(paths[sim_args[1]])
        p2 == TranslatePath(paths[sim_args[2]])
        length == MaxOf(Len(p1[1]), Len(p2[1]))
    IN  <<Resample(p1[1], length), Resample(p1[2], length),
          Resample(p2[1], length), Resample(p2[2], length)>>

\* the normalization scale of that call
ScaleOfCall == MaxDistance(ResampledPair[1], ResampledPair[2])

\* the sum of the point-wise distances of that call (0 iff their mean is 0)
DistanceSumOfCall ==
    LET r == ResampledPair
        d == Distance(r[1], r[2], r[3], r[4])
    IN  SeqSum(d, Len(d))

\* C7: calculate_similarity and calculate_similarity_matrix leave the
\* caller's trajectories as they were, also those not starting at (0, 0).
C7_CallerPathsUnchanged ==
    (SimReturned \/ MatrixReturned) => paths = paths0

\* C8: with a normalization scale of 0, calculate_similarity returns exactly
\* 1.0 if the mean point-wise distance is 0 and exactly 0.0 otherwise, never
\* an undefined value.
C8_DegenerateScaleDefined ==
    (SimReturned /\ ScaleOfCall = 0) =>
        sim_ret = (IF DistanceSumOfCall = 0 THEN Fin(Scale) ELSE Fin(0))

InUnitInterval(r) == r.tag = "fin" /\ 0 <= r.v /\ r.v <= Scale

\* C9: every value calculate_similarity returns, and every entry of the
\* matrix calculate_similarity_matrix returns, is a number in [0, 1].
C9_SimilarityInUnitInterval ==
    /\ SimReturned => InUnitInterval(sim_ret)
    /\ MatrixReturned =>
          \A r \in 1..Len(matrix_ret) : \A c \in 1..Len(matrix_ret) :
              InUnitInterval(matrix_ret[r][c])

\* C10: every diagonal entry of the returned matrix is exactly 1.0, whatever
\* the trajectory, also one whose points all coincide.
C10_DiagonalIsOne ==
    MatrixReturned =>
        \A r \in 1..Len(matrix_ret) : matrix_ret[r][r] = Fin(Scale)

\* Python's == on two floats: nan compares unequal to everything, itself too
FloatEq(a, b) ==
    /\ a.tag # "nan"
    /\ b.tag # "nan"
    /\ a = b

\* C11: in the returned matrix, for all names a and b, the comparison
\* matrix[a][b] == matrix[b][a] is true.
C11_MatrixSymmetric ==
    MatrixReturned =>
        \A r \in 1..Len(matrix_ret) : \A c \in 1..Len(matrix_ret) :
            FloatEq(matrix_ret[r][c], matrix_ret[c][r])

\* the two arguments of the returned call held equal trajectories on entry
SameTrajectory == paths0[sim_args[1]] = paths0[sim_args[2]]

\* C12: calculate_similarity(p, p) of a trajectory whose bounding box has a
\* nonzero extent returns exactly 1.0, whether the two arguments are equal
\* copies or the very same arrays.
C12_SelfSimilarityIsOne ==
    (SimReturned /\ SameTrajectory /\ ScaleOfCall # 0) => sim_ret = Fin(Scale)

\* the same stored trajectory, off the origin, compared with itself
C12_Witness ==
    /\ SimReturned
    /\ sim_args[1] = sim_args[2]
    /\ paths # paths0
    /\ ScaleOfCall # 0
    /\ sim_ret = Fin(Scale)

\* the scale the call with the two arguments exchanged would normalize by
ScaleOfReverse == MaxDistance(ResampledPair[3], ResampledPair[4])

\* what the call with the two arguments exchanged returns on the same input
ReverseCall == Similarity(paths0, sim_args[2], sim_args[1])

\* C13 (as stated, taken on trajectories of nonzero extent): the value of
\* calculate_similarity(p1, p2) equals that of calculate_similarity(p2, p1).
C13_PairwiseSymmetric ==
    (SimReturned /\ ScaleOfCall # 0 /\ ScaleOfReverse # 0) =>
        FloatEq(sim_ret, ReverseCall)

\* C13 (amended): calculate_similarity(p1, p2) equals
\* calculate_similarity(p2, p1) when the resampled bounding boxes of the two
\* trajectories have the same nonzero diagonal.
C13_SymmetricForEqualScales ==
    (SimReturned /\ ScaleOfCall # 0 /\ ScaleOfReverse = ScaleOfCall) =>
        FloatEq(sim_ret, ReverseCall)

\* two drives of different shape and equal diagonal, compared both ways
C13_Witness ==
    /\ SimReturned
    /\ TranslatePath(paths0[sim_args[1]]) # TranslatePath(paths0[sim_args[2]])
    /\ ScaleOfCall # 0
    /\ ScaleOfReverse = ScaleOfCall
    /\ sim_ret.tag = "fin"
    /\ sim_ret.v > 0
    /\ sim_ret.v < Scale
    /\ sim_ret = ReverseCall

\* C14: no calculate_path of the repository converts the angles, so the
\* method of utils.py and the function of streamlit_app.py return the same
\* trajectory for the same inputs and wheel base.
C14_SamePathInBothModules ==
    (pc = "returned" /\ sampling_frequency > 0) =>
        ret = StreamlitCalculatePath(wheel_angle, speed, sampling_frequency,
                                     wheel_base)

\* the loop is about to take a pair whose speed is zero
AtStationaryStep ==
    /\ pc = "loop"
    /\ k < ZipLen(wheel_angle, speed)
    /\ SampleAt(speed, k + 1) = 0

\* C15: a step with zero speed leaves x, y and theta as they are whatever
\* the angle, appends a point equal to the previous one and raises nothing,
\* so the next moving step starts from the heading held before it.
C15_StationaryStepKeepsPose ==
    [][AtStationaryStep =>
          /\ x' = x
          /\ y' = y
          /\ theta' = theta
          /\ x_path' = Append(x_path, x_path[Len(x_path)])
          /\ y_path' = Append(y_path, y_path[Len(y_path)])
          /\ pc' = "loop"
          /\ exc' = ""]_vars

\* a pause with the wheels turned, taken after a turn has changed the heading
C15_Witness ==
    /\ pc = "loop"
    /\ k >= 2
    /\ SampleAt(speed, k) = 0
    /\ SampleAt(wheel_angle, k) # 0
    /\ theta # 0
    /\ theta = NextTheta(0, SampleAt(wheel_angle, 1), SampleAt(speed, 1), dt,
                         wheel_base)
    /\ x_path[k + 1] = x_path[k]
    /\ y_path[k + 1] = y_path[k]
    /\ y_path[k] # 0

\* the loop is about to take a pair whose speed is not zero
AtMovingStep ==
    /\ pc = "loop"
    /\ k < ZipLen(wheel_angle, speed)
    /\ SampleAt(speed, k + 1) # 0

\* the heading change the claim states: speed * dt * tan(angle) / wheel_base
ClaimedDTheta(angle, spd, d, wb) ==
    IF angle = 0 THEN 0 ELSE Div(Mul(Mul(spd, d), Tan(angle)), wb)

\* C16: a moving step first turns the heading by
\* speed * dt * tan(angle) / wheel_base (0 for a zero angle), then moves the
\* position by speed * dt * (cos, sin) of the new heading, not of the old.
C16_HeadingThenPosition ==
    [][AtMovingStep =>
          LET angle == SampleAt(wheel_angle, k + 1)
              spd   == SampleAt(speed, k + 1)
          IN  /\ theta' = theta + ClaimedDTheta(angle, spd, dt, wheel_base)
              /\ x' = x + Mul(Mul(spd, Cos(theta')), dt)
              /\ y' = y + Mul(Mul(spd, Sin(theta')), dt)]_vars

\* a moving step with the wheels turned has been taken, and the old and the
\* new heading give different displacements
C16_Witness ==
    /\ pc = "loop"
    /\ k >= 1
    /\ SampleAt(speed, k) # 0
    /\ SampleAt(wheel_angle, k) # 0
    /\ LET spd == SampleAt(speed, k)
           old == theta - ClaimedDTheta(SampleAt(wheel_angle, k), spd, dt,
                                        wheel_base)
       IN  /\ old # theta
           /\ x = x_path[k] + Mul(Mul(spd, Cos(theta)), dt)
           /\ x # x_path[k] + Mul(Mul(spd, Cos(old)), dt)

\* C17: for n trajectories the returned table is n by n, its rows and
\* columns in the order of the input names; calculate_similarity is
\* evaluated exactly once for every pair (i, j) with i <= j, which makes
\* n(n+1)/2 evaluations, and each result is copied into cell (j, i).
C17_UpperTriangleOnce ==
    MatrixReturned =>
        LET n == Len(paths)
        IN  /\ Len(matrix_ret) = n
            /\ \A r \in 1..n : Len(matrix_ret[r]) = n
            /\ Len(evals) = (n * (n + 1)) \div 2
            /\ \A q \in 1..Len(evals) : evals[q][1] <= evals[q][2]
            /\ \A i \in 1..n : \A j \in i..n :
                   /\ Cardinality({q \in 1..Len(evals) : evals[q] = <<i, j>>}) = 1
                   /\ matrix_ret[j][i] = matrix_ret[i][j]

\* the table of two different drives: three evaluations, in row order
C17_Witness ==
    /\ MatrixReturned
    /\ Len(paths) = 2
    /\ evals = <<<<1, 1>>, <<1, 2>>, <<2, 2>>>>
    /\ matrix_ret[1][2].tag = "fin"
    /\ matrix_ret[1][2].v < Scale
    /\ matrix_ret[2][1] = matrix_ret[1][2]

\* C18: over any sequence of calls of the three methods on one instance,
\* wheel_base keeps the value it was constructed with, and what
\* calculate_path returns is a function of its arguments and wheel_base
\* alone, whatever calls came before.
C18_WheelBaseOnlyState ==
    [][/\ wheel_base' = wheel_base
       /\ pc' = "returned" =>
              ret' = CalculatePath(wheel_angle', speed', sampling_frequency',
                                   wheel_base')]_vars

\* a turning drive reconstructed with a wheel base of 3 after a matrix call
\* on the drive stored before it
C18_Witness ==
    /\ pc = "returned"
    /\ prev.called
    /\ Len(paths) >= 1
    /\ wheel_base = WiderWheelBase
    /\ \E q \in 1..ZipLen(wheel_angle, speed) :
           SampleAt(wheel_angle, q) # 0 /\ SampleAt(speed, q) # 0
    /\ ret = CalculatePath(wheel_angle, speed, sampling_frequency, wheel_base)
    /\ ret # CalculatePath(wheel_angle, speed, sampling_frequency,
                           DefaultWheelBase)

\* what calculate_path returns for the first m samples of the call's series
PathOfPrefix(m) ==
    CalculatePath(SubSeq(wheel_angle, 1, m), SubSeq(speed, 1, m),
                  sampling_frequency, wheel_base)

\* C19: calculate_path is prefix-consistent: for every m up to the number of
\* samples, the first m + 1 points of the returned trajectory are the
\* trajectory calculate_path returns for the first m samples alone.
C19_PrefixConsistent ==
    pc = "returned" =>
        \A m \in 0..ZipLen(wheel_angle, speed) :
            <<SubSeq(ret[1], 1, m + 1), SubSeq(ret[2], 1, m + 1)>> = PathOfPrefix(m)

\* a drive of three samples or more that turns, then goes on differently:
\* its first three points are the trajectory of its first two samples
C19_Witness ==
    /\ pc = "returned"
    /\ Len(wheel_angle) = Len(speed)
    /\ Len(speed) >= 3
    /\ SampleAt(wheel_angle, 1) # 0
    /\ SampleAt(speed, 1) # 0
    /\ SampleAt(speed, 2) # 0
    /\ SampleAt(speed, 3) # SampleAt(speed, 2)
    /\ SampleAt(speed, 3) # 0
    /\ <<SubSeq(ret[1], 1, 3), SubSeq(ret[2], 1, 3)>> = PathOfPrefix(2)
    /\ ret[2][3] # 0

\* C20: calculate_similarity_matrix called twice in a row on the same set
\* returns the same table both times, cell by cell, also when a trajectory
\* of the set did not start at (0, 0) before the first call.
C20_SecondMatrixCallSame ==
    (MatrixReturned /\ prev.called) => matrix_ret = prev.matrix

\* the second of two matrix calls on two different drives, the first of
\* which moved a stored trajectory to the origin
C20_Witness ==
    /\ MatrixReturned
    /\ prev.called
    /\ prev.moved
    /\ Len(paths) = 2
    /\ matrix_ret[1][2].tag = "fin"
    /\ matrix_ret[1][2].v > 0
    /\ matrix_ret[1][2].v < Scale
    /\ matrix_ret = prev.matrix

\* what calculate_similarity returns for the trajectories at positions i and
\* j of the set as it was handed to the matrix call, the first as path1
PairValue(i, j) == Similarity(paths0, i, j)

\* C21: for two names at positions i < j, the cells (i, j) and (j, i) both
\* hold what calculate_similarity returns with the earlier trajectory as
\* path1, whose bounding box gives the scale; calculate_similarity with the
\* later trajectory as path1 is never evaluated.
C21_EarlierIsPath1 ==
    MatrixReturned =>
        \A i \in 1..Len(paths) : \A j \in (i + 1)..Len(paths) :
            /\ matrix_ret[i][j] = PairValue(i, j)
            /\ matrix_ret[j][i] = PairValue(i, j)
            /\ \A q \in 1..Len(evals) : evals[q] # <<j, i>>

\* the table of two drives whose similarity depends on which one is path1:
\* both cells hold the value with the first drive as path1
C21_Witness ==
    /\ MatrixReturned
    /\ Len(paths) = 2
    /\ PairValue(1, 2).tag = "fin"
    /\ PairValue(2, 1).tag = "fin"
    /\ PairValue(1, 2) # PairValue(2, 1)
    /\ paths # paths0
    /\ matrix_ret[1][2] = PairValue(1, 2)
    /\ matrix_ret[2][1] = PairValue(1, 2)
    /\ \A q \in 1..Len(evals) : evals[q] # <<2, 1>>
====
